---- MODULE Spec2Model ----
(***************************************************************************)
(* HaHaHash: a Telegram bot (src/bot.py) that relays chat to a language    *)
(* model, meters usage per user in SQLite and resets the meter after a     *)
(* Solana micropayment found by verify_payment (src/utils.py).             *)
(*                                                                         *)
(* The four SQLite tables are sequences of rows in rowid order.  Every     *)
(* handler is one atomic action: each handler performs all of its database *)
(* statements before its first await (the reply), and the Application is   *)
(* built without concurrent updates.                                       *)
(***************************************************************************)
EXTENDS Integers, Sequences, FiniteSets, TLC

VARIABLES users, wallets, messages, payments, chain, out, steps, served, lastReset,
          clock, tasks

vars == <<users, wallets, messages, payments, chain, out, steps, served, lastReset,
          clock, tasks>>

(***************************************************************************)
(* Bounds of the exploration.                                              *)
(***************************************************************************)
\* events (handler runs and ledger transfers) after start-up
MaxSteps == 4
\* length of the sender history drawn for the verifier on its own
MaxScan == 2

(***************************************************************************)
(* Program constants.                                                      *)
(***************************************************************************)
\* bot.py:142  if message_count > 20
Threshold == 20
\* bot.py:203  len(wallet_address) != 44
WalletLen == 44
\* utils.py:62  {"limit": 20}
SigLimit == 20
\* utils.py:66, utils.py:81  status_code != 200
HttpOk == 200
\* utils.py:96  lamports / 1e9
LamportsPerSol == 1000000000

(***************************************************************************)
(* Strings that the code inspects character by character are sequences of  *)
(* one-character strings.                                                  *)
(***************************************************************************)
Str(n, c) == [i \in 1..n |-> c]

AlnumChars == {"A", "B", "R", "7"}

\* variant: only emptiness is checked
isalnum_nonempty(s) == Len(s) > 0

\* str.isalnum(): non-empty and every character alphanumeric
isalnum(s) == Len(s) > 0 /\ \A i \in 1..Len(s) : s[i] \in AlnumChars

\* bot.py:17  the receiving address of the deployment
CRYPTO_WALLET_ADDRESS == Str(WalletLen, "R")

AddrA == Str(WalletLen, "A")
AddrB == Str(WalletLen, "B")
Addresses == {AddrA, AddrB}

\* arguments a user may give to /wallet
WalletArgs ==
    { AddrA, AddrB,
      Str(WalletLen - 1, "A"),
      Str(WalletLen + 1, "A"),
      [AddrA EXCEPT ![7] = "-"] }

TelegramIds == {7001, 7002}
\* the first names each Telegram account has carried
FirstNames == [t \in TelegramIds |-> IF t = 7001 THEN {"Ann", "Bob"} ELSE {"Cy"}]
Texts == {"hi"}

\* Python's None where a signature is expected
None == <<>>
\* Python's None where an address is expected
NoAddress == <<>>

(***************************************************************************)
(* Amounts in SOL.  A float is kept as the reduced fraction it is the      *)
(* correctly rounded value of: for lamports below 2^53 two quotients       *)
(* l / 1e9 are equal floats exactly when the fractions are equal.          *)
(***************************************************************************)
RECURSIVE Gcd(_, _)
Gcd(a, b) == IF b = 0 THEN a ELSE Gcd(b, a % b)

Fraction(n, d) ==
    LET g == Gcd(n, d)
    IN  IF n = 0 THEN [num |-> 0, den |-> 1] ELSE [num |-> n \div g, den |-> d \div g]

\* bot.py:172, bot.py:178  the literal 0.001
ExpectedAmount == Fraction(1, 1000)

\* variant: the amount is rounded to three decimals before the comparison
LamportsToSol_rounded(lamports) ==
    Fraction((lamports \div 1000000) * 1000000, LamportsPerSol)

\* utils.py:96  amount_received = lamports / 1e9
LamportsToSol(lamports) == Fraction(lamports, LamportsPerSol)

(***************************************************************************)
(* Ledger store: helper functions of bot.py over table values.             *)
(***************************************************************************)
EmptyDb == [users |-> <<>>, wallets |-> <<>>, messages |-> <<>>, payments |-> <<>>]

Rows(T) == {T[i] : i \in 1..Len(T)}

\* rowid given to a new row of a table that never deletes
NextId(T) == Len(T) + 1

\* variant: a plain INSERT into a table without the UNIQUE constraint
ensure_user_insert(U, telegram_id, name) ==
    Append(U, [id |-> NextId(U), telegram_id |-> telegram_id,
               name |-> name, message_count |-> 0])

\* INSERT OR IGNORE INTO users (telegram_id, name): telegram_id is UNIQUE
ensure_user(U, telegram_id, name) ==
    IF \E r \in Rows(U) : r.telegram_id = telegram_id
    THEN U
    ELSE Append(U, [id |-> NextId(U), telegram_id |-> telegram_id,
                    name |-> name, message_count |-> 0])

\* SELECT id FROM users WHERE telegram_id = ?
get_user_id(U, telegram_id) ==
    (CHOOSE r \in Rows(U) : r.telegram_id = telegram_id).id

\* SELECT message_count FROM users WHERE id = ?
message_count_of(U, user_id) ==
    (CHOOSE r \in Rows(U) : r.id = user_id).message_count

\* the rows of a table a WHERE clause selects, by position
Where(T, hit(_)) == {i \in 1..Len(T) : hit(T[i])}

\* UPDATE users SET message_count = message_count + 1 WHERE id = ?
increment_message_count(U, user_id) ==
    LET hit(r) == r.id = user_id
    IN  IF Where(U, hit) = {} THEN U
        ELSE LET i == CHOOSE j \in Where(U, hit) : TRUE
             IN  [U EXCEPT ![i].message_count = @ + 1]

\* variant: the payment buys Threshold messages instead of clearing the count
reset_message_count_credit(U, user_id) ==
    LET hit(r) == r.id = user_id
    IN  IF Where(U, hit) = {} THEN U
        ELSE LET i == CHOOSE j \in Where(U, hit) : TRUE
             IN  [U EXCEPT ![i].message_count = @ - Threshold]

\* UPDATE users SET message_count = 0 WHERE id = ?
reset_message_count(U, user_id) ==
    LET hit(r) == r.id = user_id
    IN  IF Where(U, hit) = {} THEN U
        ELSE LET i == CHOOSE j \in Where(U, hit) : TRUE
             IN  [U EXCEPT ![i].message_count = 0]

\* INSERT INTO messages (user_id, message, role); the timestamp column takes
\* its default CURRENT_TIMESTAMP, the second `now` of the insert
store_message(M, user_id, message, role, now) ==
    Append(M, [id |-> NextId(M), user_id |-> user_id, message |-> message, role |-> role,
               timestamp |-> now])

\* SELECT message, role FROM messages WHERE user_id = ? ORDER BY timestamp:
\* the results the query may give.  The rows come by ascending timestamp; SQL
\* leaves the order among rows of equal timestamp to the engine, so every
\* arrangement of them is a possible result.
get_user_history(M, user_id) ==
    LET hit(r) == r.user_id = user_id
        rows == SelectSeq(M, hit)
        n == Len(rows)
        orders == {p \in [1..n -> 1..n] :
                     /\ \A a, b \in 1..n : p[a] = p[b] => a = b
                     /\ \A a \in 1..n : a < n =>
                           rows[p[a]].timestamp <= rows[p[a + 1]].timestamp}
    IN  {[a \in 1..n |-> <<rows[p[a]].message, rows[p[a]].role>>] : p \in orders}

\* variant: the SELECT without its WHERE clause
select_wallet_any(W, user_id) == [i \in 1..Len(W) |-> W[i].wallet_address]

\* SELECT wallet_address FROM wallets WHERE user_id = ?
select_wallet(W, user_id) ==
    LET hit(r) == r.user_id = user_id
        rows == SelectSeq(W, hit)
    IN  [i \in 1..Len(rows) |-> rows[i].wallet_address]

\* variant: a plain INSERT into a table without the UNIQUE constraint
upsert_wallet_insert(W, user_id, wallet_address) ==
    Append(W, [id |-> NextId(W), user_id |-> user_id, wallet_address |-> wallet_address])

\* INSERT INTO wallets ... ON CONFLICT(user_id) DO UPDATE SET wallet_address
upsert_wallet(W, user_id, wallet_address) ==
    LET hit(r) == r.user_id = user_id
    IN  IF Where(W, hit) = {}
        THEN Append(W, [id |-> NextId(W), user_id |-> user_id,
                        wallet_address |-> wallet_address])
        ELSE LET i == CHOOSE j \in Where(W, hit) : TRUE
             IN  [W EXCEPT ![i].wallet_address = wallet_address]

\* variant: transaction_id declared without UNIQUE
payment_conflict_never(P, transaction_id) == FALSE

\* the UNIQUE constraint on payments.transaction_id
payment_conflict(P, transaction_id) ==
    \E r \in Rows(P) : r.transaction_id = transaction_id

\* variant: the row is stored with status 'pending'
insert_payment_pending(P, user_id, transaction_id, amount) ==
    Append(P, [id |-> NextId(P), user_id |-> user_id, transaction_id |-> transaction_id,
               amount |-> amount, status |-> "pending"])

\* INSERT INTO payments (user_id, transaction_id, amount, status)
insert_payment(P, user_id, transaction_id, amount) ==
    Append(P, [id |-> NextId(P), user_id |-> user_id, transaction_id |-> transaction_id,
               amount |-> amount, status |-> "verified"])

(***************************************************************************)
(* The Solana RPC as verify_payment sees it.  The ledger is the sequence   *)
(* of transactions, newest first; a transaction carries what the two RPC   *)
(* methods answer for it: its signature, and for getTransaction the HTTP   *)
(* status, whether the envelope has a result, and the instruction list.    *)
(* An instruction is a dictionary; a key the RPC omits is absent from it.  *)
(***************************************************************************)
Sig(n) == <<"sig", n>>

\* dict.get(key, default)
Get(d, key, default) == IF key \in DOMAIN d THEN d[key] ELSE default

EmptyDict == <<>>

\* truth value of a dictionary: non-empty
Truthy(d) == DOMAIN d # {}

\* a system-program transfer as "jsonParsed" renders it
TransferInstr(source, destination, lamports) ==
    [parsed |-> [info |-> [source |-> source, destination |-> destination,
                           lamports |-> lamports]]]

\* a parsed instruction whose info has a destination and a source but no lamports
TokenInstr(source, destination) ==
    [parsed |-> [info |-> [source |-> source, destination |-> destination]]]

\* an instruction the RPC could not parse: no "parsed" key
RawInstr == [programId |-> "raw"]

\* whether an address is among a transaction's accounts
Involves(tx, address) ==
    \/ tx.signer = address
    \/ \E k \in 1..Len(tx.instructions) :
          LET info == Get(Get(tx.instructions[k], "parsed", EmptyDict), "info", EmptyDict)
          IN  \/ Get(info, "source", NoAddress) = address
              \/ Get(info, "destination", NoAddress) = address

\* variant: the signatures come oldest first
getSignaturesForAddress_oldest_first(ledger, address, limit) ==
    LET mine(tx) == Involves(tx, address)
        all == SelectSeq(ledger, mine)
        n == IF Len(all) < limit THEN Len(all) ELSE limit
    IN  [i \in 1..n |-> all[n + 1 - i]]

\* variant: the request carries no limit
getSignaturesForAddress_all(ledger, address, limit) ==
    LET mine(tx) == Involves(tx, address)
    IN  SelectSeq(ledger, mine)

\* utils.py:58-64, 70  the result of getSignaturesForAddress(address, {limit})
getSignaturesForAddress(ledger, address, limit) ==
    LET mine(tx) == Involves(tx, address)
        all == SelectSeq(ledger, mine)
    IN  SubSeq(all, 1, IF Len(all) < limit THEN Len(all) ELSE limit)

\* utils.py:90-100  the loop over one transaction's instructions
RECURSIVE ScanInstructions(_, _, _, _, _)
ScanInstructions(instructions, j, receiving_wallet, sender_wallet, expected_amount) ==
    IF j > Len(instructions) THEN FALSE
    ELSE LET parsed == Get(instructions[j], "parsed", EmptyDict)
             info == Get(parsed, "info", EmptyDict)
             rest == ScanInstructions(instructions, j + 1, receiving_wallet, sender_wallet,
                                      expected_amount)
         IN  IF Truthy(parsed) /\ Get(info, "destination", NoAddress) = receiving_wallet
             THEN LET source == Get(info, "source", NoAddress)
                      lamports == Get(info, "lamports", 0)
                      amount_received == LamportsToSol(lamports)
                  IN  IF source = sender_wallet /\ amount_received = expected_amount
                      THEN TRUE
                      ELSE rest
             ELSE rest

\* variant: a failed detail fetch ends the scan
RECURSIVE ScanTransactions_abort(_, _, _, _, _, _)
ScanTransactions_abort(transactions, i, fetched, receiving_wallet, sender_wallet, expected_amount) ==
    IF i > Len(transactions) THEN [signature |-> None, fetched |-> fetched]
    ELSE LET txn == transactions[i]
             asked == Append(fetched, txn.signature)
         IN  IF txn.status_code # HttpOk \/ ~txn.has_result
             THEN [signature |-> None, fetched |-> asked]
             ELSE IF ScanInstructions(txn.instructions, 1, receiving_wallet, sender_wallet,
                                      expected_amount)
                  THEN [signature |-> txn.signature, fetched |-> asked]
                  ELSE ScanTransactions_abort(transactions, i + 1, asked, receiving_wallet,
                                              sender_wallet, expected_amount)

\* utils.py:71-102  the loop over the returned signatures
RECURSIVE ScanTransactions(_, _, _, _, _, _)
ScanTransactions(transactions, i, fetched, receiving_wallet, sender_wallet, expected_amount) ==
    IF i > Len(transactions) THEN [signature |-> None, fetched |-> fetched]
    ELSE LET txn == transactions[i]
             asked == Append(fetched, txn.signature)
         IN  IF txn.status_code # HttpOk \/ ~txn.has_result
             THEN ScanTransactions(transactions, i + 1, asked, receiving_wallet,
                                   sender_wallet, expected_amount)
             ELSE IF ScanInstructions(txn.instructions, 1, receiving_wallet, sender_wallet,
                                      expected_amount)
                  THEN [signature |-> txn.signature, fetched |-> asked]
                  ELSE ScanTransactions(transactions, i + 1, asked, receiving_wallet,
                                        sender_wallet, expected_amount)

\* utils.py:42-102  list_status is the HTTP status of the signature-list call
verify_payment(ledger, receiving_wallet, sender_wallet, expected_amount, list_status) ==
    IF list_status # HttpOk
    THEN [signature |-> None, fetched |-> <<>>]
    ELSE ScanTransactions(getSignaturesForAddress(ledger, sender_wallet, SigLimit), 1, <<>>,
                          receiving_wallet, sender_wallet, expected_amount)

(***************************************************************************)
(* Replies and the language model.                                         *)
(***************************************************************************)
Reply(text, arg) == [text |-> text, arg |-> arg]
NoArg == <<>>

ReplyStart == Reply("Hey what would you like to be called and where are you from?", NoArg)
ReplyProvideWallet ==
    Reply("Provide your wallet address first. Use /wallet <wallet_address>.", NoArg)
ReplyLimit ==
    Reply("Limit reached. Send 0.001 SOL to {} and verify using /paid.", CRYPTO_WALLET_ADDRESS)
ReplyVerified == Reply("Payment verified!", NoArg)
ReplyUsed == Reply("Payment already used!", NoArg)
ReplyNotFound == Reply("Payment not found.", NoArg)
ReplyUsage == Reply("Please provide your Solana wallet address in the following format", NoArg)
ReplyInvalid == Reply("Invalid wallet address format.", NoArg)
ReplySaved(wallet_address) ==
    Reply("Your wallet address has been saved successfully: {}", wallet_address)

\* what the model API call and the parsing of its text come to
ModelOutcomes == {"ok", "not_json"}

\* the ways bot.py:121-124 raise: generate_content fails, json.loads rejects
\* the text, the parsed reply has no 'plan', the parsed reply has no 'message'
ModelFailures == {"api_error", "not_json", "no_plan", "no_message"}

\* variant: the plan is not logged, so its absence goes unnoticed
generate_response_no_log(outcome) ==
    IF outcome \in {"ok", "no_plan"}
    THEN Reply("joke", NoArg)
    ELSE Reply("Error: {}", <<outcome>>)

\* bot.py:118-127  the message of the JSON reply, or the text of the exception
generate_response(outcome) ==
    IF outcome = "ok" THEN Reply("joke", NoArg) ELSE Reply("Error: {}", <<outcome>>)

(***************************************************************************)
(* Telegram handlers as functions of the database D, the ledger and the    *)
(* event's inputs.  Each returns the database it leaves and what it sends  *)
(* out: the reply, whether the model was called, and for /paid the address *)
(* verified, the identifier the verifier returned and the signatures whose *)
(* detail it fetched.                                                      *)
(***************************************************************************)
Result(D, reply, model_called, verifier_called, sender, txn_id, fetched) ==
    [db |-> D, reply |-> reply, model_called |-> model_called,
     verifier_called |-> verifier_called, sender |-> sender, txn_id |-> txn_id,
     fetched |-> fetched]

Plain(D, reply) == Result(D, reply, FALSE, FALSE, NoAddress, None, <<>>)

\* what a chat turn adds to its result: the count increment_message_count
\* returned, and the messages table as get_user_history queried it (empty for
\* a turn that returned before the query)
Turn(r, message_count, queried) ==
    [db |-> r.db, reply |-> r.reply, model_called |-> r.model_called,
     verifier_called |-> r.verifier_called, sender |-> r.sender, txn_id |-> r.txn_id,
     fetched |-> r.fetched, message_count |-> message_count, queried |-> queried]

\* bot.py:130-134
start(D, telegram_id, name) ==
    Plain([D EXCEPT !.users = ensure_user(D.users, telegram_id, name)], ReplyStart)

\* variant: the threshold is compared with the count before the increment
chat_old_count(D, telegram_id, name, user_message, outcome, now, delay) ==
    LET U1 == ensure_user(D.users, telegram_id, name)
        user_id == get_user_id(U1, telegram_id)
        U2 == increment_message_count(U1, user_id)
        message_count == message_count_of(U1, user_id)
    IN  IF message_count > Threshold
        THEN IF select_wallet(D.wallets, user_id) = <<>>
             THEN Turn(Plain([D EXCEPT !.users = U2], ReplyProvideWallet), message_count, <<>>)
             ELSE Turn(Plain([D EXCEPT !.users = U2], ReplyLimit), message_count, <<>>)
        ELSE LET M1 == store_message(D.messages, user_id, Reply(user_message, NoArg), "user",
                                     now)
                 bot_response == generate_response(outcome)
                 M2 == store_message(M1, user_id, bot_response, "bot", now + delay)
             IN  Turn(Result([D EXCEPT !.users = U2, !.messages = M2], bot_response,
                             TRUE, FALSE, NoAddress, None, <<>>),
                      message_count, M1)

\* bot.py:136-159  now: the second in which the turn starts; delay: the seconds
\* the model call takes
chat(D, telegram_id, name, user_message, outcome, now, delay) ==
    LET U1 == ensure_user(D.users, telegram_id, name)
        user_id == get_user_id(U1, telegram_id)
        U2 == increment_message_count(U1, user_id)
        message_count == message_count_of(U2, user_id)
    IN  IF message_count > Threshold
        THEN IF select_wallet(D.wallets, user_id) = <<>>
             THEN Turn(Plain([D EXCEPT !.users = U2], ReplyProvideWallet), message_count, <<>>)
             ELSE Turn(Plain([D EXCEPT !.users = U2], ReplyLimit), message_count, <<>>)
        ELSE LET M1 == store_message(D.messages, user_id, Reply(user_message, NoArg), "user",
                                     now)
                 bot_response == generate_response(outcome)
                 M2 == store_message(M1, user_id, bot_response, "bot", now + delay)
             IN  Turn(Result([D EXCEPT !.users = U2, !.messages = M2], bot_response,
                             TRUE, FALSE, NoAddress, None, <<>>),
                      message_count, M1)

\* variant: a payment is looked for only when the count is over the threshold
paid_over_threshold(D, ledger, telegram_id, name, list_status, reply_ok) ==
    LET U1 == ensure_user(D.users, telegram_id, name)
        user_id == get_user_id(U1, telegram_id)
        result == select_wallet(D.wallets, user_id)
        D1 == [D EXCEPT !.users = U1]
        over == message_count_of(U1, user_id) > Threshold
    IN  IF result = <<>>
        THEN Plain(D1, ReplyProvideWallet)
        ELSE LET wallet_address == result[1]
                 v == verify_payment(ledger, CRYPTO_WALLET_ADDRESS, wallet_address,
                                     ExpectedAmount, list_status)
                 txn_id == v.signature
             IN  IF txn_id # None /\ over /\ ~payment_conflict(D.payments, txn_id)
                 THEN Result([D1 EXCEPT
                                !.payments = insert_payment(D.payments, user_id, txn_id,
                                                            ExpectedAmount),
                                !.users = reset_message_count(U1, user_id)],
                             IF reply_ok THEN ReplyVerified ELSE ReplyUsed,
                             FALSE, TRUE, wallet_address, txn_id, v.fetched)
                 ELSE Result(D1, IF txn_id # None THEN ReplyUsed ELSE ReplyNotFound,
                             FALSE, TRUE, wallet_address, txn_id, v.fetched)

\* bot.py:161-187  reply_ok: whether sending "Payment verified!" succeeds;
\* when it raises inside the try, the except clause answers instead
paid(D, ledger, telegram_id, name, list_status, reply_ok) ==
    LET U1 == ensure_user(D.users, telegram_id, name)
        user_id == get_user_id(U1, telegram_id)
        result == select_wallet(D.wallets, user_id)
        D1 == [D EXCEPT !.users = U1]
    IN  IF result = <<>>
        THEN Plain(D1, ReplyProvideWallet)
        ELSE LET wallet_address == result[1]
                 v == verify_payment(ledger, CRYPTO_WALLET_ADDRESS, wallet_address,
                                     ExpectedAmount, list_status)
                 txn_id == v.signature
             IN  IF txn_id # None
                 THEN IF payment_conflict(D.payments, txn_id)
                      THEN Result(D1, ReplyUsed, FALSE, TRUE, wallet_address, txn_id,
                                  v.fetched)
                      ELSE Result([D1 EXCEPT
                                     !.payments = insert_payment(D.payments, user_id, txn_id,
                                                                 ExpectedAmount),
                                     !.users = reset_message_count(U1, user_id)],
                                  IF reply_ok THEN ReplyVerified ELSE ReplyUsed,
                                  FALSE, TRUE, wallet_address, txn_id, v.fetched)
                 ELSE Result(D1, ReplyNotFound, FALSE, TRUE, wallet_address, txn_id,
                             v.fetched)

\* bot.py:189-224  args is context.args
wallet(D, telegram_id, name, args) ==
    LET U1 == ensure_user(D.users, telegram_id, name)
        user_id == get_user_id(U1, telegram_id)
        D1 == [D EXCEPT !.users = U1]
    IN  IF args = <<>>
        THEN Plain(D1, ReplyUsage)
        ELSE LET wallet_address == args[1]
             IN  IF Len(wallet_address) # WalletLen \/ ~isalnum(wallet_address)
                 THEN Plain(D1, ReplyInvalid)
                 ELSE Plain([D1 EXCEPT !.wallets = upsert_wallet(D.wallets, user_id,
                                                                 wallet_address)],
                            ReplySaved(wallet_address))

(***************************************************************************)
(* State.  users, wallets, messages, payments: the tables of user_data.db. *)
(* chain: the ledger behind the RPC.  out: the last event, and for a       *)
(* handler run its arguments and what it sent out.  steps counts the events so far;          *)
(* served[t] counts the chat turns of Telegram user t that                 *)
(* reached the model since t's last reset; lastReset[t] is the count that  *)
(* t's last reset replaced (-1: never reset).  clock: the wall clock in     *)
(* seconds.  tasks: the handler runs dispatched as asyncio tasks, each with *)
(* its position.                                                           *)
(***************************************************************************)
DB == [users |-> users, wallets |-> wallets, messages |-> messages, payments |-> payments]

Out(op, telegram_id, args, list_status, expected, r) ==
    [op |-> op, telegram_id |-> telegram_id, args |-> args, list_status |-> list_status,
     expected |-> expected, reply |-> r.reply, model_called |-> r.model_called,
     verifier_called |-> r.verifier_called, sender |-> r.sender, txn_id |-> r.txn_id,
     fetched |-> r.fetched]

\* an event that is no handler run: nothing is sent out
Event(op) == Out(op, 0, <<>>, 0, ExpectedAmount, Plain(EmptyDb, Reply("", NoArg)))

Idle == Event("none")

Commit(r) ==
    /\ users' = r.db.users
    /\ wallets' = r.db.wallets
    /\ messages' = r.db.messages
    /\ payments' = r.db.payments

\* message_count of a Telegram user, 0 for one not registered
CountOf(U, telegram_id) ==
    IF \E r \in Rows(U) : r.telegram_id = telegram_id
    THEN message_count_of(U, get_user_id(U, telegram_id))
    ELSE 0

\* user_data.db persists between runs, so a run starts from whatever earlier
\* runs left.  Replay(D, k, now): the database after k more chat turns of
\* Telegram user 7001, one per second from `now` on, each answered by the model
\* within the second.
RECURSIVE Replay(_, _, _)
Replay(D, k, now) ==
    IF k = 0 THEN D
    ELSE LET d == chat(D, 7001, "Ann", "hi", "ok", now, 0).db
         IN  \* the comparison has TLC evaluate d before the next turn is applied
             IF d = EmptyDb THEN d ELSE Replay(d, k - 1, now + 1)

\* the earlier runs considered: none; 19 chat turns; /wallet, then 20 chat turns
EarlierRuns ==
    { [bound |-> FALSE, chats |-> 0],
      [bound |-> FALSE, chats |-> Threshold - 1],
      [bound |-> TRUE, chats |-> Threshold] }

Persisted(run) ==
    Replay(IF run.bound THEN wallet(EmptyDb, 7001, "Ann", <<AddrA>>).db ELSE EmptyDb,
           run.chats, 1)

Init ==
    \E run \in EarlierRuns :
        /\ users = Persisted(run).users
        /\ wallets = Persisted(run).wallets
        /\ messages = Persisted(run).messages
        /\ payments = Persisted(run).payments
        /\ chain = <<>>
        /\ out = Idle
        /\ steps = 0
        /\ served = [t \in TelegramIds |-> IF t = 7001 THEN run.chats ELSE 0]
        /\ lastReset = [t \in TelegramIds |-> -1]
        /\ clock = run.chats + 1
        /\ tasks = <<>>

\* one more event, within the bound; under Spec the events of a run fall
\* within one second of the wall clock and no handler is left waiting
Step ==
    /\ steps < MaxSteps
    /\ steps' = steps + 1
    /\ UNCHANGED <<clock, tasks>>

Start(telegram_id, name) ==
    LET r == start(DB, telegram_id, name)
    IN  /\ Step
        /\ Commit(r)
        /\ out' = Out("start", telegram_id, <<>>, 0, ExpectedAmount, r)
        /\ UNCHANGED <<chain, served, lastReset>>

Chat(telegram_id, name, user_message, outcome) ==
    /\ Step
    /\ LET r == chat(DB, telegram_id, name, user_message, outcome, clock, 0)
       IN  /\ Commit(r)
           /\ out' = Out("chat", telegram_id, <<>>, 0, ExpectedAmount, r)
           /\ served' = [served EXCEPT ![telegram_id] = IF r.model_called THEN @ + 1 ELSE @]
    /\ UNCHANGED <<chain, lastReset>>

Paid(telegram_id, name, list_status, reply_ok) ==
    LET r == paid(DB, chain, telegram_id, name, list_status, reply_ok)
        reset == Len(r.db.payments) > Len(payments)
    IN  /\ Step
        /\ Commit(r)
        /\ out' = Out("paid", telegram_id, <<>>, list_status, ExpectedAmount, r)
        /\ served' = [served EXCEPT ![telegram_id] = IF reset THEN 0 ELSE @]
        /\ lastReset' = [lastReset EXCEPT ![telegram_id] =
                            IF reset THEN CountOf(users, telegram_id) ELSE @]
        /\ UNCHANGED chain

Wallet(telegram_id, name, args) ==
    LET r == wallet(DB, telegram_id, name, args)
    IN  /\ Step
        /\ Commit(r)
        /\ out' = Out("wallet", telegram_id, args, 0, ExpectedAmount, r)
        /\ UNCHANGED <<chain, served, lastReset>>

\* lamports of the transfers users make
TransferLamports == {1000000}

\* the environment: a wallet sends lamports to the receiving address; the new
\* transaction is the newest of the ledger
Transfer(source, lamports) ==
    /\ Step
    /\ chain' = <<[signature |-> Sig(Len(chain) + 1), signer |-> source,
                   status_code |-> HttpOk, has_result |-> TRUE,
                   instructions |-> <<TransferInstr(source, CRYPTO_WALLET_ADDRESS,
                                                    lamports)>>]>> \o chain
    /\ out' = Event("transfer")
    /\ UNCHANGED <<users, wallets, messages, payments, served, lastReset>>

StatusCodes == {HttpOk, 500}

Next ==
    \/ \E t \in TelegramIds : \E n \in FirstNames[t] : Start(t, n)
    \/ \E t \in TelegramIds : \E n \in FirstNames[t], m \in Texts, o \in ModelOutcomes :
          Chat(t, n, m, o)
    \/ \E t \in TelegramIds : \E n \in FirstNames[t], s \in StatusCodes, ok \in BOOLEAN :
          Paid(t, n, s, ok)
    \/ \E t \in TelegramIds : \E n \in FirstNames[t], a \in WalletArgs : Wallet(t, n, <<a>>)
    \/ \E t \in TelegramIds : \E n \in FirstNames[t] : Wallet(t, n, <<>>)
    \/ \E a \in Addresses, l \in TransferLamports : Transfer(a, l)

Spec == Init /\ [][Next]_vars

(***************************************************************************)
(* verify_payment on its own: the ledger is drawn from the histories built *)
(* of the transaction samples below, and one call is made on it.           *)
(***************************************************************************)
Tx(signer, status_code, has_result, instructions) ==
    [signer |-> signer, status_code |-> status_code, has_result |-> has_result,
     instructions |-> instructions]

\* transactions whose accounts include AddrA, but for the last
TxSamples ==
    LET R == CRYPTO_WALLET_ADDRESS
        pay == TransferInstr(AddrA, R, 1000000)
    IN  { Tx(AddrA, HttpOk, TRUE, <<pay>>),
          Tx(AddrA, HttpOk, TRUE, <<TransferInstr(AddrA, R, 1100000)>>),
          Tx(AddrA, HttpOk, TRUE, <<TransferInstr(AddrB, R, 1000000)>>),
          Tx(AddrA, HttpOk, TRUE, <<TransferInstr(AddrA, AddrB, 1000000)>>),
          Tx(AddrA, HttpOk, TRUE, <<>>),
          Tx(AddrA, HttpOk, TRUE, <<RawInstr>>),
          Tx(AddrA, HttpOk, TRUE, <<TokenInstr(AddrA, R)>>),
          Tx(AddrA, HttpOk, TRUE, <<RawInstr, pay>>),
          Tx(AddrA, HttpOk, TRUE, <<TransferInstr(AddrA, R, 1100000), pay>>),
          Tx(AddrA, 500, FALSE, <<pay>>),
          Tx(AddrA, HttpOk, FALSE, <<pay>>),
          Tx(AddrB, HttpOk, TRUE, <<TransferInstr(AddrB, R, 1000000)>>) }

\* the ledger of the bodies given, below `pad` newer transactions of AddrA that
\* carry no parsed instruction; signatures number the ledger from the newest
Ledger(pad, bodies) ==
    [i \in 1..(pad + Len(bodies)) |->
        LET b == IF i <= pad THEN Tx(AddrA, HttpOk, TRUE, <<RawInstr>>) ELSE bodies[i - pad]
        IN  [signature |-> Sig(i), signer |-> b.signer, status_code |-> b.status_code,
             has_result |-> b.has_result, instructions |-> b.instructions]]

VerifyLedgers ==
    { Ledger(pad, bodies) :
        pad \in {0, SigLimit - 1},
        bodies \in UNION { [1..k -> TxSamples] : k \in 0..MaxScan } }

\* the literals 0.001 and 0.0011
ExpectedAmounts == {ExpectedAmount, Fraction(11, 10000)}

VerifyInit ==
    /\ users = <<>>
    /\ wallets = <<>>
    /\ messages = <<>>
    /\ payments = <<>>
    /\ chain \in VerifyLedgers
    /\ out = Idle
    /\ steps = 0
    /\ served = [t \in TelegramIds |-> 0]
    /\ lastReset = [t \in TelegramIds |-> -1]
    /\ clock = 0
    /\ tasks = <<>>

VerifyCall(sender_wallet, expected_amount, list_status) ==
    /\ out.op = "none"
    /\ LET v == verify_payment(chain, CRYPTO_WALLET_ADDRESS, sender_wallet, expected_amount,
                               list_status)
       IN  out' = Out("verify", 0, <<>>, list_status, expected_amount,
                      Result(EmptyDb, Reply("", NoArg), FALSE, TRUE, sender_wallet,
                             v.signature, v.fetched))
    /\ UNCHANGED <<users, wallets, messages, payments, chain, steps, served, lastReset,
                   clock, tasks>>

VerifyNext ==
    \E a \in Addresses, e \in ExpectedAmounts, s \in StatusCodes : VerifyCall(a, e, s)

SpecVerify == VerifyInit /\ [][VerifyNext]_vars

(***************************************************************************)
(* Conversations on a new database, with the wall clock: a turn may fall in *)
(* the second of the turn before, and the model may answer within the       *)
(* second or in the next.  Under SpecChat the model call may fail in each   *)
(* of its ways and the turns follow one another at once; under SpecHistory  *)
(* seconds may pass between turns and the state keeps what                  *)
(* get_user_history gave the turn, in out.history.                          *)
(***************************************************************************)
\* chat turns of a conversation
MaxTurns == 2

\* seconds a model call takes
ModelDelays == {0, 1}

ChatInit ==
    /\ users = <<>>
    /\ wallets = <<>>
    /\ messages = <<>>
    /\ payments = <<>>
    /\ chain = <<>>
    /\ out = Idle
    /\ steps = 0
    /\ served = [t \in TelegramIds |-> 0]
    /\ lastReset = [t \in TelegramIds |-> -1]
    /\ clock = 0
    /\ tasks = <<>>

\* bot.py:136-159  a chat turn at second `clock`
ChatTurn(telegram_id, name, user_message, outcome, delay) ==
    /\ steps < MaxTurns
    /\ steps' = steps + 1
    /\ clock' = clock + delay
    /\ LET r == chat(DB, telegram_id, name, user_message, outcome, clock, delay)
       IN  /\ Commit(r)
           /\ out' = Out("chat", telegram_id, <<>>, 0, ExpectedAmount, r)
           /\ served' = [served EXCEPT ![telegram_id] = IF r.model_called THEN @ + 1 ELSE @]
    /\ UNCHANGED <<chain, lastReset, tasks>>

\* bot.py:136-159  a chat turn at second `clock`, with the history it was given
HistoryTurn(telegram_id, name, user_message, delay) ==
    /\ steps < MaxTurns
    /\ steps' = steps + 1
    /\ clock' = clock + delay
    /\ LET r == chat(DB, telegram_id, name, user_message, "ok", clock, delay)
           user_id == get_user_id(r.db.users, telegram_id)
       IN  /\ Commit(r)
           /\ \E history \in get_user_history(r.queried, user_id) :
                 out' = [turn |-> Out("chat", telegram_id, <<>>, 0, ExpectedAmount, r),
                         op |-> "turn",
                         message_count |-> r.message_count,
                         history |-> history]
           /\ served' = [served EXCEPT ![telegram_id] = IF r.model_called THEN @ + 1 ELSE @]
    /\ UNCHANGED <<chain, lastReset, tasks>>

\* a second passes
Tick ==
    /\ clock < MaxTurns
    /\ clock' = clock + 1
    /\ UNCHANGED <<users, wallets, messages, payments, chain, out, steps, served, lastReset,
                   tasks>>

ChatNext ==
    \E t \in TelegramIds :
       \E n \in FirstNames[t], m \in Texts, o \in {"ok"} \cup ModelFailures,
          d \in ModelDelays : ChatTurn(t, n, m, o, d)

SpecChat == ChatInit /\ [][ChatNext]_vars

HistoryNext ==
    \/ \E t \in TelegramIds :
          \E n \in FirstNames[t], m \in Texts, d \in ModelDelays : HistoryTurn(t, n, m, d)
    \/ Tick

SpecHistory == ChatInit /\ [][HistoryNext]_vars

(***************************************************************************)
(* Handlers as concurrently dispatched asyncio tasks.  A coroutine gives up *)
(* the event loop only at an await, and the only awaits of chat and paid    *)
(* are the replies that follow their last database statement, so a task     *)
(* runs from its start to its reply in one piece; tasks start in any order  *)
(* and their replies complete in any order.                                 *)
(***************************************************************************)
\* the handler runs dispatched under SpecAsync
MaxTasks == 2

\* the run that left the database SpecAsync starts from: /wallet and 19 turns
AsyncRun == [bound |-> TRUE, chats |-> Threshold - 1]

\* the payments rows of Telegram user t: the resets of t's count so far
ResetsOf(U, P, t) ==
    Cardinality({i \in 1..Len(P) :
                   \E u \in 1..Len(U) : U[u].telegram_id = t /\ U[u].id = P[i].user_id})

Task(op, telegram_id, name) ==
    [op |-> op, telegram_id |-> telegram_id, name |-> name, pc |-> "dispatched",
     before |-> 0, message_count |-> 0, resets |-> 0]

\* the database that run left
AsyncDb == Persisted(AsyncRun)

AsyncInit ==
    /\ users = AsyncDb.users
    /\ wallets = AsyncDb.wallets
    /\ messages = AsyncDb.messages
    /\ payments = AsyncDb.payments
    /\ chain = <<[signature |-> Sig(1), signer |-> AddrA, status_code |-> HttpOk,
                  has_result |-> TRUE,
                  instructions |-> <<TransferInstr(AddrA, CRYPTO_WALLET_ADDRESS, 1000000)>>]>>
    /\ out = Idle
    /\ steps = 0
    /\ served = [t \in TelegramIds |-> 0]
    /\ lastReset = [t \in TelegramIds |-> -1]
    /\ clock = AsyncRun.chats + 1
    /\ tasks = <<>>

\* the Application creates a task for an update
Dispatch(op, telegram_id, name) ==
    /\ Len(tasks) < MaxTasks
    /\ tasks' = Append(tasks, Task(op, telegram_id, name))
    /\ UNCHANGED <<users, wallets, messages, payments, chain, out, steps, served, lastReset,
                   clock>>

\* bot.py:136-159  task i runs chat up to its reply
RunChat(i, outcome) ==
    /\ i <= Len(tasks)
    /\ tasks[i].op = "chat" /\ tasks[i].pc = "dispatched"
    /\ LET t == tasks[i].telegram_id
           r == chat(DB, t, tasks[i].name, "hi", outcome, clock, 0)
       IN  /\ Commit(r)
           /\ out' = Out("chat", t, <<>>, 0, ExpectedAmount, r)
           /\ tasks' = [tasks EXCEPT ![i].pc = "replying",
                                     ![i].before = CountOf(users, t),
                                     ![i].message_count = r.message_count,
                                     ![i].resets = ResetsOf(users, payments, t)]
    /\ UNCHANGED <<chain, steps, served, lastReset, clock>>

\* bot.py:161-187  task i runs paid up to its reply
RunPaid(i, list_status) ==
    /\ i <= Len(tasks)
    /\ tasks[i].op = "paid" /\ tasks[i].pc = "dispatched"
    /\ LET t == tasks[i].telegram_id
           r == paid(DB, chain, t, tasks[i].name, list_status, TRUE)
       IN  /\ Commit(r)
           /\ out' = Out("paid", t, <<>>, list_status, ExpectedAmount, r)
           /\ tasks' = [tasks EXCEPT ![i].pc = "replying",
                                     ![i].before = CountOf(users, t),
                                     ![i].resets = ResetsOf(users, payments, t)]
    /\ UNCHANGED <<chain, steps, served, lastReset, clock>>

\* bot.py:145-159, 168-187  the awaited reply_text of task i returns
Deliver(i) ==
    /\ i <= Len(tasks)
    /\ tasks[i].pc = "replying"
    /\ tasks' = [tasks EXCEPT ![i].pc = "done"]
    /\ UNCHANGED <<users, wallets, messages, payments, chain, out, steps, served, lastReset,
                   clock>>

AsyncNext ==
    \/ \E t \in TelegramIds : \E n \in FirstNames[t], op \in {"chat", "paid"} :
          Dispatch(op, t, n)
    \/ \E i \in 1..MaxTasks, o \in ModelOutcomes : RunChat(i, o)
    \/ \E i \in 1..MaxTasks, s \in StatusCodes : RunPaid(i, s)
    \/ \E i \in 1..MaxTasks : Deliver(i)

SpecAsync == AsyncInit /\ [][AsyncNext]_vars

(***************************************************************************)
(* Vocabulary of the properties.                                           *)
(***************************************************************************)
\* the event of this step was handler op, run for Telegram user t
Handled(op, t) == steps' = steps + 1 /\ out'.op = op /\ out'.telegram_id = t

Registered(U, t) == \E i \in 1..Len(U) : U[i].telegram_id = t

\* the wallet addresses bound to Telegram user t
Bindings(U, W, t) ==
    { W[j].wallet_address : j \in { j \in 1..Len(W) :
        \E i \in 1..Len(U) : U[i].telegram_id = t /\ U[i].id = W[j].user_id } }

TxnIds(P) == { P[i].transaction_id : i \in 1..Len(P) }

\* every row of U is in U2, at the same place, with the same message_count
SameCounts(U, U2) ==
    /\ Len(U2) >= Len(U)
    /\ \A i \in 1..Len(U) :
          U2[i].telegram_id = U[i].telegram_id /\ U2[i].message_count = U[i].message_count

\* C1: payment replay protection.  No two payments rows carry the same
\* transaction identifier; a step that sets a user's message_count back to 0
\* from a /paid adds exactly one payments row, whose identifier was in no row
\* before; and a /paid whose verifier returns an identifier already in payments
\* answers 'Payment already used!', adds no row and changes no message_count.
C1_ReplayProtection ==
    /\ [](\A i, j \in 1..Len(payments) :
            payments[i].transaction_id = payments[j].transaction_id => i = j)
    /\ [][\A t \in TelegramIds :
            /\ (\E i \in 1..Len(users) : users'[i].message_count < users[i].message_count)
                  => /\ Len(payments') = Len(payments) + 1
                     /\ payments'[Len(payments')].transaction_id \notin TxnIds(payments)
            /\ (Handled("paid", t) /\ out'.txn_id \in TxnIds(payments))
                  => /\ out'.reply = ReplyUsed
                     /\ payments' = payments
                     /\ SameCounts(users, users')]_vars

\* C1 witness: /paid by one user was answered 'Payment already used!' for an
\* identifier recorded for another user bound to the same wallet address.
C1_Witness ==
    /\ out.op = "paid"
    /\ out.reply = ReplyUsed
    /\ \E i \in 1..Len(payments) :
          /\ payments[i].transaction_id = out.txn_id
          /\ \E u \in 1..Len(users) :
                /\ users[u].id = payments[i].user_id
                /\ users[u].telegram_id # out.telegram_id
                /\ Bindings(users, wallets, users[u].telegram_id)
                     = Bindings(users, wallets, out.telegram_id)

\* C2: a chat turn, blocked or not, raises the user's message_count by exactly
\* 1, and right after a /paid whose verifier returned an identifier not yet
\* recorded the user's message_count is 0.
C2_CountMonotoneAndReset ==
    [][\A t \in TelegramIds :
         /\ Handled("chat", t) => CountOf(users', t) = CountOf(users, t) + 1
         /\ (Handled("paid", t) /\ out'.txn_id # None /\ out'.txn_id \notin TxnIds(payments))
               => Registered(users', t) /\ CountOf(users', t) = 0]_vars

\* C2 witness: a verified /paid has just reset a positive count to 0.
C2_Witness ==
    /\ out.op = "paid"
    /\ out.reply = ReplyVerified
    /\ lastReset[out.telegram_id] > 0
    /\ CountOf(users, out.telegram_id) = 0

\* C3: usage gating.  A chat turn calls the model or appends to messages only
\* if the count it reaches is at most 20; a chat turn of a user whose count
\* already exceeds 20 calls no model and stores nothing; and no user has more
\* than 20 chat turns reach the model between two resets.
C3_UsageGating ==
    /\ [](\A t \in TelegramIds : served[t] <= Threshold)
    /\ [][\A t \in TelegramIds :
            Handled("chat", t) =>
               /\ (out'.model_called \/ messages' # messages)
                     => CountOf(users', t) <= Threshold
               /\ CountOf(users, t) > Threshold
                     => ~out'.model_called /\ messages' = messages]_vars

\* C3 witness: a user who already had 20 turns served and was blocked once is
\* blocked again.
C3_Witness ==
    /\ out.op = "chat"
    /\ ~out.model_called
    /\ served[out.telegram_id] = Threshold
    /\ CountOf(users, out.telegram_id) = Threshold + 2

\* C4: when a user whose message_count is 20 or more sends a text message, the
\* count rises by 1, no model call is made, and the reply asks for a wallet
\* if the user has no binding and gives the payment instructions otherwise.
C4_BlockedReply ==
    [][\A t \in TelegramIds :
         (Handled("chat", t) /\ CountOf(users, t) >= Threshold) =>
            /\ CountOf(users', t) = CountOf(users, t) + 1
            /\ ~out'.model_called
            /\ out'.reply = IF Bindings(users, wallets, t) = {}
                            THEN ReplyProvideWallet
                            ELSE ReplyLimit]_vars

\* C4 witness: the 21st message of a user with no wallet binding was answered
\* with the request to bind a wallet.
C4_Witness ==
    /\ out.op = "chat"
    /\ CountOf(users, out.telegram_id) = Threshold + 1
    /\ Bindings(users, wallets, out.telegram_id) = {}
    /\ out.reply = ReplyProvideWallet
    /\ ~out.model_called

\* C5: recovery.  For a user with a bound wallet and message_count 21, a /paid
\* whose verifier returns a signature not yet in payments adds the row (user,
\* signature, 'verified') and sets message_count to 0; the next text message
\* of a user at count 0 raises the count to 1, stores the inbound message and
\* then the reply, and calls the model.
C5_Recovery ==
    [][\A t \in TelegramIds :
         /\ ( /\ Handled("paid", t)
              /\ Bindings(users, wallets, t) # {}
              /\ CountOf(users, t) = Threshold + 1
              /\ out'.txn_id # None
              /\ out'.txn_id \notin TxnIds(payments) )
            => /\ Len(payments') = Len(payments) + 1
               /\ SubSeq(payments', 1, Len(payments)) = payments
               /\ LET row == payments'[Len(payments')]
                  IN  /\ row.status = "verified"
                      /\ row.transaction_id = out'.txn_id
                      /\ \E i \in 1..Len(users) :
                            users[i].telegram_id = t /\ users[i].id = row.user_id
               /\ CountOf(users', t) = 0
         /\ (Handled("chat", t) /\ Registered(users, t) /\ CountOf(users, t) = 0)
            => /\ CountOf(users', t) = 1
               /\ out'.model_called
               /\ Len(messages') = Len(messages) + 2
               /\ SubSeq(messages', 1, Len(messages)) = messages
               /\ LET m == messages'[Len(messages) + 1]
                      b == messages'[Len(messages) + 2]
                  IN  /\ m.role = "user" /\ b.role = "bot"
                      /\ b.message = out'.reply
                      /\ \E i \in 1..Len(users) :
                            /\ users[i].telegram_id = t
                            /\ m.user_id = users[i].id /\ b.user_id = users[i].id]_vars

\* C5 witness: a user paid at count 21 and has had the next message answered.
C5_Witness ==
    /\ out.op = "chat"
    /\ out.model_called
    /\ lastReset[out.telegram_id] = Threshold + 1
    /\ CountOf(users, out.telegram_id) = 1
    /\ \E i \in 1..Len(payments), u \in 1..Len(users) :
          /\ users[u].telegram_id = out.telegram_id
          /\ payments[i].user_id = users[u].id
          /\ payments[i].status = "verified"

\* what the /wallet handler accepts according to the specification: exactly
\* 44 characters, all alphanumeric
ValidAddress(a) == Len(a) = WalletLen /\ \A i \in 1..Len(a) : a[i] \in AlnumChars

C7_IdempotentRegistration ==
    /\ [](\A i, j \in 1..Len(users) :
            (users[i].telegram_id = users[j].telegram_id \/ users[i].id = users[j].id)
               => i = j)
    /\ [][/\ \A t \in TelegramIds, op \in {"start", "chat", "wallet", "paid"} :
                Handled(op, t) =>
                   Cardinality({i \in 1..Len(users') : users'[i].telegram_id = t}) = 1
          /\ Len(users') >= Len(users)
          /\ \A i \in 1..Len(users) :
                /\ users'[i].id = users[i].id
                /\ users'[i].telegram_id = users[i].telegram_id
                /\ users'[i].name = users[i].name
          /\ \A t \in TelegramIds :
                (Handled("start", t) /\ Registered(users, t)) => users' = users]_vars

\* C7 witness: /start came from a user who is registered under another first
\* name than one the account carries, and has chatted before.
C7_Witness ==
    /\ out.op = "start"
    /\ CountOf(users, out.telegram_id) > 0
    /\ \E i \in 1..Len(users) :
          /\ users[i].telegram_id = out.telegram_id
          /\ FirstNames[out.telegram_id] \ {users[i].name} # {}
    /\ Len(users) = 2

\* C8: one wallet binding per user, last write wins.  No two wallets rows share
\* a user_id; an accepted /wallet leaves its user bound to exactly the address
\* given; a /wallet changes no other user's binding; and /paid runs the
\* verifier exactly when its user has a binding, on the address bound.
C8_WalletLastWriteWins ==
    /\ [](\A i, j \in 1..Len(wallets) : wallets[i].user_id = wallets[j].user_id => i = j)
    /\ [][\A t \in TelegramIds :
            /\ (Handled("wallet", t) /\ out'.args # <<>> /\ ValidAddress(out'.args[1]))
                  => Bindings(users', wallets', t) = {out'.args[1]}
            /\ Handled("wallet", t) =>
                  \A t2 \in TelegramIds \ {t} :
                     Bindings(users', wallets', t2) = Bindings(users, wallets, t2)
            /\ Handled("paid", t) =>
                  IF out'.verifier_called
                  THEN Bindings(users, wallets, t) = {out'.sender}
                  ELSE Bindings(users, wallets, t) = {}]_vars

\* C8 witness: a user whose payment from AddrA is on record has since bound
\* AddrB, and /paid has verified against AddrB.
C8_Witness ==
    /\ out.op = "paid"
    /\ out.sender = AddrB
    /\ \E i \in 1..Len(payments), u \in 1..Len(users), k \in 1..Len(chain) :
          /\ users[u].telegram_id = out.telegram_id
          /\ payments[i].user_id = users[u].id
          /\ chain[k].signature = payments[i].transaction_id
          /\ chain[k].signer = AddrA

(***************************************************************************)
(* Properties of verify_payment, under SpecVerify.                         *)
(***************************************************************************)
\* the places in the ledger of the transactions the call scans: the newest
\* SigLimit transactions that involve the sender, none when the list call fails
Scanned ==
    IF out.list_status # HttpOk THEN {}
    ELSE LET mine == {i \in 1..Len(chain) : Involves(chain[i], out.sender)}
         IN  {i \in mine : Cardinality({j \in mine : j <= i}) <= SigLimit}

\* the lamports that make expected_amount SOL
ExpectedLamports(e) == e.num * (LamportsPerSol \div e.den)

\* instruction ins names the destination, source and lamports asked for
IsPayment(ins, destination, source, lamports) ==
    /\ "parsed" \in DOMAIN ins
    /\ "info" \in DOMAIN ins.parsed
    /\ LET info == ins.parsed.info
       IN  /\ "destination" \in DOMAIN info /\ info.destination = destination
           /\ "source" \in DOMAIN info /\ info.source = source
           /\ (IF "lamports" \in DOMAIN info THEN info.lamports ELSE 0) = lamports

\* the detail of chain[i] was fetched and holds a payment instruction
Matching(i) ==
    /\ chain[i].status_code = HttpOk
    /\ chain[i].has_result
    /\ \E k \in 1..Len(chain[i].instructions) :
          IsPayment(chain[i].instructions[k], CRYPTO_WALLET_ADDRESS, out.sender,
                    ExpectedLamports(out.expected))

\* C9: verify_payment returns a signature exactly when some scanned transaction
\* whose detail was fetched holds a parsed transfer with destination the
\* receiving address, source the sender and lamports = expected_amount * 10^9,
\* and the signature is that of the newest such transaction.
C9_FirstMatchReturned ==
    out.op = "verify" =>
       /\ out.txn_id # None <=> \E i \in Scanned : Matching(i)
       /\ \A i \in Scanned :
             (Matching(i) /\ \A j \in Scanned : j < i => ~Matching(j))
                => out.txn_id = chain[i].signature

\* C9 witness: two scanned transactions match and the newer one's signature
\* was returned.
C9_Witness ==
    /\ out.op = "verify"
    /\ \E i, j \in Scanned :
          i < j /\ Matching(i) /\ Matching(j) /\ out.txn_id = chain[i].signature

\* the parsed instructions of the scanned transactions whose detail was fetched
ScannedInfos ==
    UNION { { chain[i].instructions[k].parsed.info :
                k \in {k \in 1..Len(chain[i].instructions) :
                         /\ "parsed" \in DOMAIN chain[i].instructions[k]
                         /\ "info" \in DOMAIN chain[i].instructions[k].parsed} } :
            i \in {i \in Scanned : chain[i].status_code = HttpOk /\ chain[i].has_result} }

\* C10: verify_payment returns None when the signature list is empty, when no
\* scanned instruction has the receiving address as destination, when every
\* instruction to the receiving address has another source than the sender or
\* lamports other than expected_amount * 10^9; and a scanned transaction with
\* no parsed instruction does not keep an older matching one from being found.
C10_NotFoundCases ==
    out.op = "verify" =>
       /\ Scanned = {} => out.txn_id = None
       /\ (\A info \in ScannedInfos :
              Get(info, "destination", NoAddress) # CRYPTO_WALLET_ADDRESS)
             => out.txn_id = None
       /\ (\A info \in ScannedInfos :
              Get(info, "destination", NoAddress) = CRYPTO_WALLET_ADDRESS
                 => \/ Get(info, "source", NoAddress) # out.sender
                    \/ Get(info, "lamports", 0) # ExpectedLamports(out.expected))
             => out.txn_id = None
       /\ \A i, j \in Scanned :
             ( /\ i < j /\ Matching(j)
               /\ \A k \in 1..Len(chain[i].instructions) :
                     "parsed" \notin DOMAIN chain[i].instructions[k] )
                => out.txn_id # None

\* C10 witness: 0.001 SOL was expected, the only transfer of the sender to the
\* receiving address in the scanned transactions carries 1,100,000 lamports,
\* and the answer was None.
C10_Witness ==
    /\ out.op = "verify"
    /\ out.list_status = HttpOk
    /\ out.expected = ExpectedAmount
    /\ out.txn_id = None
    /\ \E info \in ScannedInfos :
          /\ Get(info, "destination", NoAddress) = CRYPTO_WALLET_ADDRESS
          /\ Get(info, "source", NoAddress) = out.sender
          /\ Get(info, "lamports", 0) = 1100000

\* the detail fetch of chain[i] gave no transaction: a non-success status or an
\* envelope without result
FetchFailed(i) == chain[i].status_code # HttpOk \/ ~chain[i].has_result

\* the signatures whose detail the call fetched
FetchedSigs == {out.fetched[k] : k \in 1..Len(out.fetched)}

\* C11: RPC failures in verify_payment.  When the signature-list call does not
\* answer 200 the result is None and no transaction detail is fetched.  When
\* it does, the details are fetched of every scanned signature down to the one
\* returned (of all of them when None is returned), so a detail fetch that
\* fails or has no result skips that signature only; and when the newest
\* matching transaction comes after such a failed one, its signature is
\* returned.
C11_RpcFailures ==
    out.op = "verify" =>
       /\ out.list_status # HttpOk => out.txn_id = None /\ out.fetched = <<>>
       /\ out.list_status = HttpOk =>
             /\ \A i \in Scanned :
                   chain[i].signature \in FetchedSigs
                      <=> \A h \in Scanned : chain[h].signature = out.txn_id => i <= h
             /\ \A i, j \in Scanned :
                   ( /\ i < j /\ FetchFailed(i) /\ Matching(j)
                     /\ \A k \in Scanned : k < j => ~Matching(k) )
                      => out.txn_id = chain[j].signature

\* C11 witness: the detail fetch of a scanned transaction failed with a
\* non-success status and the signature of an older one was returned.
C11_Witness ==
    /\ out.op = "verify"
    /\ out.list_status = HttpOk
    /\ \E i, j \in Scanned :
          /\ i < j
          /\ chain[i].status_code # HttpOk
          /\ out.txn_id = chain[j].signature
          /\ chain[i].signature \in FetchedSigs

\* C11 witness of the other case is the state after a call whose list request
\* was refused although the ledger holds a matching transaction.
C11_ListRefused ==
    /\ out.op = "verify"
    /\ out.list_status # HttpOk
    /\ \E i \in 1..Len(chain) : Matching(i)

\* the chat tasks that have run their increment
RanChat == {i \in 1..Len(tasks) : tasks[i].op = "chat" /\ tasks[i].pc # "dispatched"}

\* C12: the metering operation under concurrently dispatched handlers.  The
\* count increment_message_count returned to a chat turn is the stored count
\* just before the turn's UPDATE plus one; two turns of one user with no reset
\* between them never got the same count; and no increment is lost: a user's
\* stored count is the count at the last reset (0) or at start-up plus the
\* number of that user's chat turns since.
C12_AtomicIncrement ==
    /\ \A i \in RanChat : tasks[i].message_count = tasks[i].before + 1
    /\ \A i, j \in RanChat :
          ( /\ i # j
            /\ tasks[i].telegram_id = tasks[j].telegram_id
            /\ tasks[i].resets = tasks[j].resets )
             => tasks[i].message_count # tasks[j].message_count
    /\ \A t \in TelegramIds :
          LET resets == ResetsOf(users, payments, t)
              base == IF resets = 0 THEN CountOf(AsyncDb.users, t) ELSE 0
              k == Cardinality({i \in RanChat : /\ tasks[i].telegram_id = t
                                                /\ tasks[i].resets = resets})
          IN  CountOf(users, t) = base + k

\* C12 witness: two chat turns of one user were in flight together - the
\* second ran while the first still awaited its reply - and they got the
\* counts 20 and 21.
C12_Witness ==
    \E i, j \in RanChat :
       /\ tasks[i].telegram_id = tasks[j].telegram_id
       /\ tasks[i].pc = "replying" /\ tasks[j].pc = "replying"
       /\ tasks[i].message_count = Threshold
       /\ tasks[j].message_count = Threshold + 1

\* <<message, role>> of the rows of M that belong to the user with this id, in
\* the order in which they were stored
StoredFor(M, user_id) ==
    LET hit(r) == r.user_id = user_id
        rows == SelectSeq(M, hit)
    IN  [a \in 1..Len(rows) |-> <<rows[a].message, rows[a].role>>]

\* messages as the last turn's query found it: without the turn's bot reply
Queried == SubSeq(messages, 1, Len(messages) - 1)

\* C13: the message log is append-only, and get_user_history(u) returns the
\* messages stored for user u, none of another user's, in the order in which
\* they were stored, also when several of them carry the same timestamp.
C13_HistoryInStoredOrder ==
    /\ [][/\ Len(messages') >= Len(messages)
          /\ SubSeq(messages', 1, Len(messages)) = messages]_vars
    /\ [](out.op = "turn" /\ out.turn.model_called =>
             out.history = StoredFor(Queried,
                                     get_user_id(users, out.turn.telegram_id)))

\* what holds of the history in every case: the log is append-only, the
\* history has the messages stored for the user, each as often as stored and
\* none of another user's, and messages of different seconds come in the
\* order in which they were stored
C13_HistoryByTimestamp ==
    /\ [][/\ Len(messages') >= Len(messages)
          /\ SubSeq(messages', 1, Len(messages)) = messages]_vars
    /\ [](out.op = "turn" /\ out.turn.model_called =>
             LET user_id == get_user_id(users, out.turn.telegram_id)
                 hit(r) == r.user_id = user_id
                 rows == SelectSeq(Queried, hit)
                 n == Len(rows)
             IN  /\ Len(out.history) = n
                 /\ \E p \in [1..n -> 1..n] :
                       /\ \A a, b \in 1..n : p[a] = p[b] => a = b
                       /\ \A a \in 1..n :
                             out.history[a] = <<rows[p[a]].message, rows[p[a]].role>>
                       /\ \A a, b \in 1..n :
                             rows[p[a]].timestamp < rows[p[b]].timestamp => a < b)

\* a turn whose history shows a bot reply before the user message it answered
C13_ReplyBeforeMessage ==
    /\ out.op = "turn"
    /\ Len(out.history) >= 2
    /\ out.history[1][2] = "bot"

\* the message_count of every user but Telegram user t is as it was
OthersSameCounts(t) ==
    \A i \in 1..Len(users) :
       users[i].telegram_id # t => users'[i].message_count = users[i].message_count

\* C14: counter frame condition.  A step lowers a message_count only when it
\* is a /paid by that same user whose verifier returned an identifier and
\* whose payments insert succeeded; /start, /wallet, and a /paid answered with
\* the bind-wallet prompt, 'Payment not found.' or 'Payment already used!'
\* leave every message_count as it was; and a chat turn or /paid by one user
\* leaves every other user's message_count as it was.
C14_CounterFrame ==
    [][\A t \in TelegramIds :
         /\ (\E i \in 1..Len(users) :
                /\ users[i].telegram_id = t
                /\ users'[i].message_count < users[i].message_count)
               => /\ Handled("paid", t)
                  /\ out'.txn_id # None
                  /\ Len(payments') = Len(payments) + 1
         /\ (Handled("start", t) \/ Handled("wallet", t)) => SameCounts(users, users')
         /\ ( /\ Handled("paid", t)
              /\ out'.reply \in {ReplyProvideWallet, ReplyNotFound, ReplyUsed} )
               => SameCounts(users, users')
         /\ (Handled("chat", t) \/ Handled("paid", t)) => OthersSameCounts(t)]_vars

\* a /paid was answered 'Payment already used!' for an identifier that this
\* very /paid recorded: the only payments row with it is the newest
C14_UsedReplyAfterReset ==
    /\ out.op = "paid"
    /\ out.reply = ReplyUsed
    /\ Len(payments) > 0
    /\ payments[Len(payments)].transaction_id = out.txn_id
    /\ CountOf(users, out.telegram_id) = 0
    /\ lastReset[out.telegram_id] > 0

\* C15: a payments row is created only on successful verification.  Every row
\* has status 'verified' and amount 0.001.  Only /paid adds rows, one at a
\* time; the row it adds belongs to the caller, who had a wallet binding
\* before the step, and carries the identifier the verifier returned in that
\* step for the caller's bound address.  A /paid by a user without binding
\* answers with the bind-wallet prompt, does not call the verifier and adds
\* nothing; a /paid whose verifier returns None adds nothing.
C15_PaymentOnlyOnVerification ==
    /\ [](\A i \in 1..Len(payments) :
             payments[i].status = "verified" /\ payments[i].amount = ExpectedAmount)
    /\ [][/\ payments' # payments =>
                /\ out'.op = "paid"
                /\ Len(payments') = Len(payments) + 1
                /\ SubSeq(payments', 1, Len(payments)) = payments
          /\ \A t \in TelegramIds :
                Handled("paid", t) =>
                   /\ payments' # payments =>
                         LET row == payments'[Len(payments')]
                         IN  /\ Registered(users, t)
                             /\ row.user_id = get_user_id(users', t)
                             /\ Bindings(users, wallets, t) = {out'.sender}
                             /\ out'.verifier_called
                             /\ out'.txn_id # None
                             /\ row.transaction_id = out'.txn_id
                             /\ out'.txn_id =
                                   verify_payment(chain, CRYPTO_WALLET_ADDRESS, out'.sender,
                                                  ExpectedAmount, HttpOk).signature
                   /\ Bindings(users, wallets, t) = {} =>
                         /\ out'.reply = ReplyProvideWallet
                         /\ ~out'.verifier_called
                         /\ payments' = payments
                   /\ (out'.verifier_called /\ out'.txn_id = None) =>
                         /\ out'.reply = ReplyNotFound
                         /\ payments' = payments]_vars

\* C15 witness: a payment is recorded for a user with a bound wallet, and the
\* /paid of a user without binding has just been answered with the prompt.
C15_Witness ==
    /\ out.op = "paid"
    /\ out.reply = ReplyProvideWallet
    /\ ~out.verifier_called
    /\ Bindings(users, wallets, out.telegram_id) = {}
    /\ \E i \in 1..Len(payments), u \in 1..Len(users) :
          /\ users[u].id = payments[i].user_id
          /\ users[u].telegram_id # out.telegram_id
          /\ Bindings(users, wallets, users[u].telegram_id) # {}

\* C16: never-crash boundary of a chat turn.  When the model call or the
\* parsing of its reply raises - the API fails, the text is not JSON, the
\* reply lacks 'plan' or 'message' - in a turn below the threshold, the turn
\* is answered with the literal 'Error: ...' string, the count is one higher,
\* the inbound message is stored and the error string is stored after it as
\* the turn's bot message; and a turn whose model call succeeds is answered
\* with the model's message whatever came before it.
C16_ModelFailureContained ==
    [][\A t \in TelegramIds : \A n \in FirstNames[t], m \in Texts, d \in ModelDelays :
         LET stored ==
                /\ CountOf(users', t) = CountOf(users, t) + 1
                /\ Len(messages') = Len(messages) + 2
                /\ SubSeq(messages', 1, Len(messages)) = messages
                /\ LET asked == messages'[Len(messages) + 1]
                       answer == messages'[Len(messages) + 2]
                   IN  /\ asked.user_id = get_user_id(users', t)
                       /\ asked.role = "user" /\ asked.message = Reply(m, NoArg)
                       /\ answer.user_id = get_user_id(users', t)
                       /\ answer.role = "bot" /\ answer.message = out'.reply
         IN  /\ \A o \in ModelFailures :
                   ( /\ Handled("chat", t) /\ CountOf(users, t) < Threshold
                     /\ ChatTurn(t, n, m, o, d) )
                      => /\ out'.reply.text = "Error: {}"
                         /\ out'.reply.arg = <<o>>
                         /\ stored
             /\ ( /\ Handled("chat", t) /\ CountOf(users, t) < Threshold
                  /\ ChatTurn(t, n, m, "ok", d) )
                   => /\ out'.reply = Reply("joke", NoArg)
                      /\ stored]_vars

\* C16 witness: a user's turn was answered with the model's message after an
\* earlier turn of the same user had ended in a stored error string for a
\* reply without 'plan'.
C16_Witness ==
    /\ out.op = "chat"
    /\ out.reply = Reply("joke", NoArg)
    /\ \E i \in 1..Len(messages) :
          /\ i < Len(messages) - 1
          /\ messages[i].role = "bot"
          /\ messages[i].message = Reply("Error: {}", <<"no_plan">>)
          /\ messages[i].user_id = get_user_id(users, out.telegram_id)
    /\ CountOf(users, out.telegram_id) = 2

\* C17: /paid does not consult the usage threshold.  Whatever the caller's
\* message_count, a /paid whose verifier returns an identifier not yet
\* recorded appends the payments row with that identifier for the caller and
\* leaves the caller's message_count 0.
C17_PaidIgnoresThreshold ==
    [][\A t \in TelegramIds :
         ( /\ Handled("paid", t)
           /\ out'.verifier_called
           /\ out'.txn_id # None
           /\ out'.txn_id \notin TxnIds(payments) )
            => /\ Len(payments') = Len(payments) + 1
               /\ SubSeq(payments', 1, Len(payments)) = payments
               /\ payments'[Len(payments')].transaction_id = out'.txn_id
               /\ payments'[Len(payments')].user_id = get_user_id(users', t)
               /\ CountOf(users', t) = 0
               /\ lastReset'[t] = CountOf(users, t)]_vars

\* C17 witness: a /paid has just recorded a payment and reset the count of a
\* user who was Active, with a positive count not over the threshold.
C17_Witness ==
    /\ out.op = "paid"
    /\ Len(payments) > 0
    /\ payments[Len(payments)].transaction_id = out.txn_id
    /\ payments[Len(payments)].user_id = get_user_id(users, out.telegram_id)
    /\ lastReset[out.telegram_id] > 0
    /\ lastReset[out.telegram_id] <= Threshold
    /\ CountOf(users, out.telegram_id) = 0

\* the same for a user who had sent no message: the count was 0 already
C17_WitnessAtZero ==
    /\ out.op = "paid"
    /\ Len(payments) > 0
    /\ payments[Len(payments)].transaction_id = out.txn_id
    /\ lastReset[out.telegram_id] = 0

\* the places in the ledger, after the step, of the scanned transactions that
\* hold the payment looked for
ScannedMatches == {i \in Scanned' : Matching(i)'}

\* C18: /paid only ever tries to credit the newest matching transfer.  The
\* identifier the verifier returns to /paid is that of the newest scanned
\* transaction that matches; when that identifier is already recorded, /paid
\* answers 'Payment already used!', adds no payments row and changes no
\* message_count, also when an older scanned matching transfer is not
\* recorded; and a payments row added by /paid carries the identifier of the
\* newest scanned matching transaction, never that of an older one.
C18_NewestMatchOnly ==
    [][\A t \in TelegramIds :
         (Handled("paid", t) /\ out'.verifier_called) =>
            /\ out'.txn_id # None <=> ScannedMatches # {}
            /\ \A i \in ScannedMatches :
                  (\A j \in ScannedMatches : i <= j) =>
                     /\ out'.txn_id = chain[i].signature
                     /\ chain[i].signature \in TxnIds(payments) =>
                           /\ out'.reply = ReplyUsed
                           /\ payments' = payments
                           /\ SameCounts(users, users')
                     /\ payments' # payments =>
                           payments'[Len(payments')].transaction_id = chain[i].signature]_vars

\* C18 witness: /paid was answered 'Payment already used!' for the newest
\* matching transfer while an older matching transfer of the same wallet is
\* in the scanned window and in no payments row.
C18_Witness ==
    /\ out.op = "paid"
    /\ out.reply = ReplyUsed
    /\ \E i, j \in Scanned :
          /\ i < j
          /\ Matching(i) /\ Matching(j)
          /\ out.txn_id = chain[i].signature
          /\ chain[i].signature \in TxnIds(payments)
          /\ chain[j].signature \notin TxnIds(payments)

====
